---- MODULE Spec2Model ----
(***************************************************************************)
(* A model of the ACS PUMS variable mapper (acs-pums-variable-mapper.py):  *)
(* acs_pums_variable_mapper, its nested mappings_extract, the dictionary   *)
(* fetch get_acs_pums_data_dictionary and bulk_process_pums_datasets.      *)
(*                                                                         *)
(* Text is modelled character by character: a Python str is a sequence of  *)
(* one-character strings, so startswith, strip, "in" and the two regular   *)
(* expressions are computed, not assumed.  Python indices are 0-based; the *)
(* model's are 1-based and 0 stands for None.                              *)
(***************************************************************************)
EXTENDS Integers, Sequences, FiniteSets, TLC

\* ------------------------------------------------------------------------
\* Characters and the str methods the program uses
\* ------------------------------------------------------------------------

Upper ==
    {"A", "B", "C", "D", "E", "F", "G", "H", "I", "J", "K", "L", "M",
     "N", "O", "P", "Q", "R", "S", "T", "U", "V", "W", "X", "Y", "Z"}

Lower ==
    {"a", "b", "c", "d", "e", "f", "g", "h", "i", "j", "k", "l", "m",
     "n", "o", "p", "q", "r", "s", "t", "u", "v", "w", "x", "y", "z"}

Digit ==
    {"0", "1", "2", "3", "4", "5", "6", "7", "8", "9"}

\* What str.strip() removes and what \s matches.
Space ==
    {" ", "\t", "\n", "\r"}

\* Every character of the model's texts.
AnyChar ==
    Upper \cup Lower \cup Digit \cup Space \cup {".", "-", "_"}

DigitVal(c) ==
    CASE c = "0" -> 0 [] c = "1" -> 1 [] c = "2" -> 2 [] c = "3" -> 3
      [] c = "4" -> 4 [] c = "5" -> 5 [] c = "6" -> 6 [] c = "7" -> 7
      [] c = "8" -> 8 [] c = "9" -> 9

\* int(key) of a run of decimal digits: leading zeros are dropped.
RECURSIVE ParseInt(_)
ParseInt(ds) ==
    IF ds = <<>> THEN 0
    ELSE 10 * ParseInt(SubSeq(ds, 1, Len(ds) - 1)) + DigitVal(ds[Len(ds)])

\* line.startswith(prefix)
StartsWith(s, prefix) ==
    /\ Len(prefix) <= Len(s)
    /\ SubSeq(s, 1, Len(prefix)) = prefix

\* needle in line
Contains(s, needle) ==
    \E k \in 0..(Len(s) - Len(needle)) :
        SubSeq(s, k + 1, k + Len(needle)) = needle

\* The length of the longest prefix of s made of characters of set.
RECURSIVE RunLen(_, _)
RunLen(s, set) ==
    IF s = <<>> \/ s[1] \notin set THEN 0
    ELSE 1 + RunLen(Tail(s), set)

Reverse(s) ==
    [k \in 1..Len(s) |-> s[Len(s) + 1 - k]]

\* str.strip(): leading and trailing whitespace removed.
Strip(s) ==
    LET lead  == RunLen(s, Space)
        trail == RunLen(Reverse(s), Space)
    IN  IF lead = Len(s) THEN <<>>
        ELSE SubSeq(s, lead + 1, Len(s) - trail)

\* str.isupper(): no lower-case letter and at least one upper-case letter.
IsUpper(s) ==
    /\ \A k \in 1..Len(s) : s[k] \notin Lower
    /\ \E k \in 1..Len(s) : s[k] \in Upper

\* ------------------------------------------------------------------------
\* The two regular expressions of mappings_extract
\* ------------------------------------------------------------------------

\* re.match(r'(\d+)\s+\.(.+)', s): digits, whitespace, a period and at
\* least one more character that is not a newline.  Digits, whitespace and
\* the period are disjoint, so the greedy runs are the only way to match.
CodeMatch(s) ==
    LET d    == RunLen(s, Digit)
        w    == RunLen(SubSeq(s, d + 1, Len(s)), Space)
        dot  == d + w + 1
        rest == SubSeq(s, dot + 1, Len(s))
        n    == RunLen(rest, AnyChar \ {"\n"})
    IN  [matched |-> /\ d >= 1
                     /\ w >= 1
                     /\ dot <= Len(s)
                     /\ s[dot] = "."
                     /\ n >= 1,
         key     |-> SubSeq(s, 1, d),
         value   |-> SubSeq(rest, 1, n)]

\* re.match(r'[A-Z]+\s+', s): upper-case letters followed by whitespace.
HeaderMatch(s) ==
    LET u == RunLen(s, Upper)
    IN  /\ u >= 1
        /\ u < Len(s)
        /\ s[u + 1] \in Space

\* ------------------------------------------------------------------------
\* The dictionary: marker texts and the lines of the modelled dictionaries
\* ------------------------------------------------------------------------

HousingMarker ==
    <<"H", "O", "U", "S", "I", "N", "G", " ", "R", "E", "C", "O", "R", "D",
      "-", "B", "A", "S", "I", "C", " ", "V", "A", "R", "I", "A", "B", "L",
      "E", "S">>

PersonMarker ==
    <<"P", "E", "R", "S", "O", "N", " ", "R", "E", "C", "O", "R", "D", "-",
      "B", "A", "S", "I", "C", " ", "V", "A", "R", "I", "A", "B", "L", "E",
      "S">>

\* Lines as readlines() yields them: each keeps its newline.
LineHousing == HousingMarker \o <<"\n">>

LinePerson == PersonMarker \o <<"\n">>

\* A line holding both markers, neither at its start.
LineBoth == <<" ">> \o HousingMarker \o <<" ">> \o PersonMarker \o <<"\n">>

LineSEX == <<"S", "E", "X", " ", "C", "\n">>

LineSEXP == <<"S", "E", "X", "P", " ", "C", "\n">>

LineCode1 == <<" ", " ", "1", " ", ".", "M", "a", "l", "e", "\n">>

LineCode2 == <<"2", " ", ".", "F", "e", "m", " ", "\n">>

LineCode5 == <<"0", "5", " ", ".", "O", "t", "h", "\n">>

LineBlank == <<"\n">>

LineNote == <<"n", "o", "t", "e", "\n">>

\* Column names of the modelled tables.
NameSEX == <<"S", "E", "X">>

NameSEXP == <<"S", "E", "X", "P">>

NameLower == <<"s", "e", "x">>

NameAGE == <<"A", "G", "E", "_", "2">>

\* ------------------------------------------------------------------------
\* Section location (the two survey levels)
\* ------------------------------------------------------------------------

None == 0

\* The Housing-Level loop: start_index is set at every housing marker, and
\* the loop breaks at the first person marker seen once start_index is set.
RECURSIVE HousingScan(_, _, _)
HousingScan(file_content, i, start_index) ==
    IF i > Len(file_content)
    THEN [start_index |-> start_index, end_index |-> None]
    ELSE IF Contains(file_content[i], HousingMarker)
         THEN HousingScan(file_content, i + 1, i)
         ELSE IF Contains(file_content[i], PersonMarker) /\ start_index # None
              THEN [start_index |-> start_index, end_index |-> i]
              ELSE HousingScan(file_content, i + 1, start_index)

\* lines = file_content[start_index:end_index] when both were found.
HousingSection(file_content) ==
    LET r == HousingScan(file_content, 1, None)
    IN  IF r.start_index # None /\ r.end_index # None
        THEN SubSeq(file_content, r.start_index, r.end_index - 1)
        ELSE <<>>

\* The Person-Level loop: lines = file_content[i:] at the first marker line.
RECURSIVE PersonScan(_, _)
PersonScan(file_content, i) ==
    IF i > Len(file_content) THEN <<>>
    ELSE IF Contains(file_content[i], PersonMarker)
         THEN SubSeq(file_content, i, Len(file_content))
         ELSE PersonScan(file_content, i + 1)

\* PersonSection with a seeded fault: the slice starts after the marker line.
PersonSectionAfterMarker(file_content) ==
    LET s == PersonScan(file_content, 1)
    IN  IF s = <<>> THEN <<>> ELSE Tail(s)

PersonSection(file_content) ==
    PersonScan(file_content, 1)

\* lines starts empty and is set only for the two known survey levels.
Section(file_content, survey_level) ==
    IF survey_level = "Housing-Level" THEN HousingSection(file_content)
    ELSE IF survey_level = "Person-Level" THEN PersonSection(file_content)
    ELSE <<>>

\* ------------------------------------------------------------------------
\* mappings_extract
\* ------------------------------------------------------------------------

\* mappings = {}
EmptyMap ==
    [key \in {} |-> <<>>]

\* mappings[int(key)] = value.strip(): a later line overwrites an earlier.
DictSet(mappings, key, value) ==
    [x \in (DOMAIN mappings) \cup {key} |->
        IF x = key THEN value ELSE mappings[x]]

RECURSIVE ExtractLoop(_, _, _, _, _)
ExtractLoop(column_name, lines, i, column_found, mappings) ==
    IF i > Len(lines) THEN mappings
    ELSE IF StartsWith(lines[i], column_name)
         THEN ExtractLoop(column_name, lines, i + 1, TRUE, mappings)
         ELSE IF ~column_found
              THEN ExtractLoop(column_name, lines, i + 1, FALSE, mappings)
              ELSE LET stripped == Strip(lines[i])
                       match    == CodeMatch(stripped)
                   IN  IF match.matched
                       THEN ExtractLoop(column_name, lines, i + 1, TRUE,
                                DictSet(mappings, ParseInt(match.key),
                                    Strip(match.value)))
                       ELSE IF stripped = <<>> \/ HeaderMatch(stripped)
                            THEN mappings
                            ELSE ExtractLoop(column_name, lines, i + 1,
                                             TRUE, mappings)

mappings_extract(column_name, lines) ==
    ExtractLoop(column_name, lines, 1, FALSE, EmptyMap)

\* ------------------------------------------------------------------------
\* Tables (DataFrames) and the column map
\* ------------------------------------------------------------------------

\* A cell is a numeric code, a label (str) or the missing marker NaN.
CodeCell(n) == [kind |-> "code", code |-> n, label |-> <<>>]

LabelCell(s) == [kind |-> "label", code |-> 0, label |-> s]

NullCell == [kind |-> "null", code |-> 0, label |-> <<>>]

\* MapValue with a seeded fault: a value that is no key keeps its code.
MapValuePassThrough(mappings, v) ==
    IF v.kind = "code" /\ v.code \in DOMAIN mappings
    THEN LabelCell(mappings[v.code])
    ELSE v

\* Series.map(mappings) on one cell: a value that is no key becomes NaN.
MapValue(mappings, v) ==
    IF v.kind = "code" /\ v.code \in DOMAIN mappings
    THEN LabelCell(mappings[v.code])
    ELSE NullCell

\* Eligible with a seeded fault: skip_variables is not consulted.
EligibleIgnoringSkip(column, skip_variables) ==
    IsUpper(column)

\* column.isupper() and column not in skip_variables
Eligible(column, skip_variables) ==
    IsUpper(column) /\ column \notin skip_variables

\* One pass of the column loop over a column [name, cells] of the table.
MapColumnOf(c, lines, skip_variables) ==
    IF Eligible(c.name, skip_variables)
    THEN LET mappings == mappings_extract(c.name, lines)
         IN  IF DOMAIN mappings # {}
             THEN [name  |-> c.name,
                   cells |-> [r \in 1..Len(c.cells) |->
                                  MapValue(mappings, c.cells[r])]]
             ELSE c
    ELSE c

\* The whole column loop, on a table value.
MapTable(table, lines, skip_variables) ==
    [k \in 1..Len(table) |-> MapColumnOf(table[k], lines, skip_variables)]

\* CopyTable with a seeded fault: no copy is made, df stays the caller's object.
AliasTable(objects, ref) ==
    [ref |-> ref, heap |-> objects]

\* df.copy(): a new object holding the same columns and cells.
CopyTable(objects, ref) ==
    [ref |-> Len(objects) + 1, heap |-> Append(objects, objects[ref])]

\* NoSource with a seeded fault: acs_year is left out of the test.
NoSourceIgnoringYear(args) ==
    /\ args.acs_pums_data_dictionary_path = "None"
    /\ args.acs_pums_data_dictionary_url = "None"

\* None of the three dictionary sources was supplied.
NoSource(args) ==
    /\ args.acs_pums_data_dictionary_path = "None"
    /\ args.acs_pums_data_dictionary_url = "None"
    /\ args.acs_year = "None"

\* response.raise_for_status() raises for 4xx and 5xx.
RaisesForStatus(status) ==
    status >= 400 /\ status < 600

\* The statuses the modelled server answers with: success and not found.
HttpStatuses ==
    {200, 404}

\* BulkSkip with a seeded fault: the caller's list is not passed on.
BulkSkipDropped(skip) ==
    {}

\* bulk_process_pums_datasets: skip_variables None becomes [].
BulkSkip(skip) ==
    IF skip.none THEN {} ELSE skip.val

\* ------------------------------------------------------------------------
\* State
\* ------------------------------------------------------------------------

VARIABLES
    heap,            \* the DataFrame objects: heap[r] is the table with id r
    input,           \* heap as the caller built it (never assigned again)
    args,            \* dictionary path, url, year and survey_level arguments
    skip_variables,  \* acs_pums_variable_mapper's skip_variables
    dictText,        \* the lines the dictionary source holds (file or body)
    fileOk,          \* whether open() succeeds: "unknown" until first opened
    httpStatus,      \* the status the server answers with: 0 until asked
    arg,             \* the id of the table passed as df
    pc,              \* where acs_pums_variable_mapper stands
    df,              \* the local df after df.copy() (None before)
    file_content,    \* the lines read from the dictionary source
    lines,           \* the section of file_content for the survey level
    col,             \* the position of the column loop in df.columns
    mappings,        \* the last mapping mappings_extract returned
    result,          \* the id of the returned table (None before return)
    exc,             \* the exception raised ("" when none)
    io,              \* counts of files opened, GET requests, section scans
    datasets,        \* bulk: the (name, table id) items in dict order
    bulk_skip,       \* bulk: its skip_variables argument (None or a list)
    processed,       \* bulk: the result dict, name -> table id
    k,               \* bulk: the position of the loop in datasets.items()
    bpc              \* where bulk_process_pums_datasets stands

mapperVars ==
    <<pc, df, file_content, lines, col, mappings, result, exc>>

bulkVars ==
    <<datasets, bulk_skip, processed, k, bpc>>

envVars ==
    <<input, args, dictText>>

vars ==
    <<heap, input, args, skip_variables, dictText, fileOk, httpStatus, arg,
      pc, df, file_content, lines, col, mappings, result, exc, io,
      datasets, bulk_skip, processed, k, bpc>>

\* ------------------------------------------------------------------------
\* acs_pums_variable_mapper
\* ------------------------------------------------------------------------

\* No source was supplied: ValueError, before anything else is done.
ConfigError ==
    /\ pc = "start"
    /\ NoSource(args)
    /\ pc' = "raised"
    /\ exc' = "ValueError"
    /\ UNCHANGED <<heap, skip_variables, fileOk, httpStatus, arg, df,
                   file_content, lines, col, mappings, result, io>>
    /\ UNCHANGED <<envVars, bulkVars>>

\* df = df.copy()
CopyDf ==
    /\ pc = "start"
    /\ ~NoSource(args)
    /\ LET c == CopyTable(heap, arg)
       IN  /\ heap' = c.heap
           /\ df' = c.ref
    /\ pc' = "load"
    /\ UNCHANGED <<skip_variables, fileOk, httpStatus, arg, file_content,
                   lines, col, mappings, result, exc, io>>
    /\ UNCHANGED <<envVars, bulkVars>>

\* with open(path) as file: file_content = file.readlines()
LoadFromPath ==
    /\ pc = "load"
    /\ args.acs_pums_data_dictionary_path # "None"
    /\ \E ok \in (IF fileOk = "unknown" THEN {"yes", "no"} ELSE {fileOk}) :
          /\ fileOk' = ok
          /\ IF ok = "yes"
             THEN /\ file_content' = dictText
                  /\ pc' = "locate"
                  /\ exc' = exc
             ELSE /\ file_content' = file_content
                  /\ pc' = "raised"
                  /\ exc' = "FileNotFoundError"
    /\ io' = [io EXCEPT !.opens = @ + 1]
    /\ UNCHANGED <<heap, skip_variables, httpStatus, arg, df, lines, col,
                   mappings, result>>
    /\ UNCHANGED <<envVars, bulkVars>>

\* requests.get(url).content.decode('utf-8'): the status is not looked at.
LoadFromUrl ==
    /\ pc = "load"
    /\ args.acs_pums_data_dictionary_path = "None"
    /\ args.acs_pums_data_dictionary_url # "None"
    /\ \E status \in (IF httpStatus = 0 THEN HttpStatuses ELSE {httpStatus}) :
          httpStatus' = status
    /\ file_content' = dictText
    /\ pc' = "locate"
    /\ io' = [io EXCEPT !.requests = @ + 1]
    /\ UNCHANGED <<heap, skip_variables, fileOk, arg, df, lines, col,
                   mappings, result, exc>>
    /\ UNCHANGED <<envVars, bulkVars>>

\* get_acs_pums_data_dictionary(year=acs_year): raise_for_status, then read.
LoadFromYear ==
    /\ pc = "load"
    /\ args.acs_pums_data_dictionary_path = "None"
    /\ args.acs_pums_data_dictionary_url = "None"
    /\ args.acs_year # "None"
    /\ \E status \in (IF httpStatus = 0 THEN HttpStatuses ELSE {httpStatus}) :
          /\ httpStatus' = status
          /\ IF RaisesForStatus(status)
             THEN /\ file_content' = file_content
                  /\ pc' = "raised"
                  /\ exc' = "HTTPError"
             ELSE /\ file_content' = dictText
                  /\ pc' = "locate"
                  /\ exc' = exc
    /\ io' = [io EXCEPT !.requests = @ + 1]
    /\ UNCHANGED <<heap, skip_variables, fileOk, arg, df, lines, col,
                   mappings, result>>
    /\ UNCHANGED <<envVars, bulkVars>>

\* The single pass that selects the section of the survey level.
LocateSection ==
    /\ pc = "locate"
    /\ lines' = Section(file_content, args.survey_level)
    /\ col' = 1
    /\ pc' = "map"
    /\ io' = [io EXCEPT !.scans = @ + 1]
    /\ UNCHANGED <<heap, skip_variables, fileOk, httpStatus, arg, df,
                   file_content, mappings, result, exc>>
    /\ UNCHANGED <<envVars, bulkVars>>

\* One iteration of "for column in df.columns".
MapColumn ==
    /\ pc = "map"
    /\ col <= Len(heap[df])
    /\ LET c == heap[df][col]
       IN  /\ heap' = [heap EXCEPT ![df][col] =
                           MapColumnOf(c, lines, skip_variables)]
           /\ mappings' = IF Eligible(c.name, skip_variables)
                          THEN mappings_extract(c.name, lines)
                          ELSE mappings
    /\ col' = col + 1
    /\ UNCHANGED <<skip_variables, fileOk, httpStatus, arg, pc, df,
                   file_content, lines, result, exc, io>>
    /\ UNCHANGED <<envVars, bulkVars>>

\* return df
Return ==
    /\ pc = "map"
    /\ col > Len(heap[df])
    /\ result' = df
    /\ pc' = "done"
    /\ UNCHANGED <<heap, skip_variables, fileOk, httpStatus, arg, df,
                   file_content, lines, col, mappings, exc, io>>
    /\ UNCHANGED <<envVars, bulkVars>>

Mapper ==
    \/ ConfigError
    \/ CopyDf
    \/ LoadFromPath
    \/ LoadFromUrl
    \/ LoadFromYear
    \/ LocateSection
    \/ MapColumn
    \/ Return

\* ------------------------------------------------------------------------
\* bulk_process_pums_datasets
\* ------------------------------------------------------------------------

\* The next item of datasets.items(): call acs_pums_variable_mapper on it.
BulkCall ==
    /\ bpc = "loop"
    /\ pc = "idle"
    /\ k <= Len(datasets)
    /\ arg' = datasets[k].df
    /\ skip_variables' = BulkSkip(bulk_skip)
    /\ pc' = "start"
    /\ df' = None
    /\ file_content' = <<>>
    /\ lines' = <<>>
    /\ col' = 0
    /\ mappings' = EmptyMap
    /\ result' = None
    /\ UNCHANGED <<heap, fileOk, httpStatus, exc, io>>
    /\ UNCHANGED <<envVars, bulkVars>>

\* processed[name] = the table the call returned.
BulkStore ==
    /\ bpc = "loop"
    /\ pc = "done"
    /\ processed' = DictSet(processed, datasets[k].name, result)
    /\ k' = k + 1
    /\ pc' = "idle"
    /\ UNCHANGED <<heap, skip_variables, fileOk, httpStatus, arg, df,
                   file_content, lines, col, mappings, result, exc, io>>
    /\ UNCHANGED <<envVars, datasets, bulk_skip, bpc>>

\* An exception of the call is not caught: it leaves the bulk function.
BulkRaise ==
    /\ bpc = "loop"
    /\ pc = "raised"
    /\ bpc' = "raised"
    /\ UNCHANGED <<heap, skip_variables, fileOk, httpStatus, arg, io>>
    /\ UNCHANGED <<envVars, mapperVars, datasets, bulk_skip, processed, k>>

\* return processed
BulkReturn ==
    /\ bpc = "loop"
    /\ pc = "idle"
    /\ k > Len(datasets)
    /\ bpc' = "done"
    /\ UNCHANGED <<heap, skip_variables, fileOk, httpStatus, arg, io>>
    /\ UNCHANGED <<envVars, mapperVars, datasets, bulk_skip, processed, k>>

\* ------------------------------------------------------------------------
\* Inputs
\* ------------------------------------------------------------------------

\* Rows of every modelled table.
NumRows == 2

\* Longest dictionary made of marker, header and code lines in any order.
MaxLines == 4

\* Longest run of entry lines after the person marker.
MaxBody == 6

\* Most tables in one bulk call.
MaxTables == 2

SeqsUpTo(S, n) ==
    UNION {[1..m -> S] : m \in 0..n}

\* A dictionary with a housing and a person section, each with a SEX entry.
SampleText ==
    <<LineHousing, LineSEX, LineCode5, LineBlank,
      LinePerson, LineSEX, LineCode1, LineNote, LineCode2, LineBlank>>

MarkerPool ==
    {LineHousing, LinePerson, LineBoth, LineSEX, LineCode1}

EntryPool ==
    {LineSEX, LineSEXP, LineCode1, LineCode5, LineBlank}

CellPool ==
    {CodeCell(1), CodeCell(2), CodeCell(5)}

Layouts ==
    {<<NameSEX>>, <<NameLower, NameSEX>>, <<NameSEX, NameAGE>>}

\* Every table with the column names of layout, in that order.
TablesOf(layout) ==
    {[c \in 1..Len(layout) |-> [name |-> layout[c], cells |-> f[c]]] :
        f \in [1..Len(layout) -> [1..NumRows -> CellPool]]}

Tables ==
    UNION {TablesOf(layout) : layout \in Layouts}

\* One table per layout, with the codes 1, 2, 5 cycling down its rows.
PlainTable(layout) ==
    [c \in 1..Len(layout) |->
        [name  |-> layout[c],
         cells |-> [r \in 1..NumRows |->
                       CodeCell(IF r % 3 = 1 THEN 1
                                ELSE IF r % 3 = 2 THEN 2 ELSE 5)]]]

\* A table whose every cell holds the same code.
ConstTable(layout, code) ==
    [c \in 1..Len(layout) |->
        [name |-> layout[c], cells |-> [r \in 1..NumRows |-> CodeCell(code)]]]

\* The tables a bulk call is given.
BulkTablePool ==
    {PlainTable(<<NameSEX>>),
     ConstTable(<<NameLower, NameSEX>>, 2),
     ConstTable(<<NameSEX, NameAGE>>, 5)}

SurveyLevels ==
    {"Person-Level", "Housing-Level", "Household-Level"}

AllArgs ==
    [acs_pums_data_dictionary_path : {"None", "dict.txt"},
     acs_pums_data_dictionary_url  : {"None", "http://dict"},
     acs_year                      : {"None", "2023"},
     survey_level                  : SurveyLevels]

PathArgs ==
    {a \in AllArgs : /\ a.acs_pums_data_dictionary_path # "None"
                     /\ a.acs_pums_data_dictionary_url = "None"
                     /\ a.acs_year = "None"}

TableNames ==
    <<"t1", "t2", "t3", "t4">>

\* The state when acs_pums_variable_mapper is entered with table 1 as df.
MapperEntry(texts, tables, argsSet, skips) ==
    /\ dictText \in texts
    /\ \E t \in tables : heap = <<t>>
    /\ input = heap
    /\ args \in argsSet
    /\ skip_variables \in skips
    /\ fileOk = "unknown"
    /\ httpStatus = 0
    /\ arg = 1
    /\ pc = "start"
    /\ df = None
    /\ file_content = <<>>
    /\ lines = <<>>
    /\ col = 0
    /\ mappings = EmptyMap
    /\ result = None
    /\ exc = ""
    /\ io = [opens |-> 0, requests |-> 0, scans |-> 0]
    /\ datasets = <<>>
    /\ bulk_skip = [none |-> TRUE, val |-> {}]
    /\ processed = EmptyMap
    /\ k = 0
    /\ bpc = "none"

\* Any table, source and skip list over the sample dictionary; or any
\* dictionary of marker lines read from a file.
Init ==
    \/ MapperEntry({SampleText}, Tables, AllArgs, {{}, {NameSEX}})
    \/ MapperEntry(SeqsUpTo(MarkerPool, MaxLines) \ {SampleText},
                   {PlainTable(<<NameSEX>>)}, PathArgs, {{}})

\* Any person section of entry lines, read from a file; the other sources
\* over the sample dictionary.
InitExtract ==
    \/ MapperEntry({SampleText}, {PlainTable(<<NameSEX>>)}, AllArgs, {{}})
    \/ MapperEntry({<<LinePerson>> \o b : b \in SeqsUpTo(EntryPool, MaxBody)},
                   {PlainTable(<<NameSEX, NameSEXP>>)},
                   {a \in PathArgs : a.survey_level = "Person-Level"}, {{}})

\* The state when bulk_process_pums_datasets is entered.
InitBulk ==
    /\ dictText = SampleText
    /\ heap \in SeqsUpTo(BulkTablePool, MaxTables)
    /\ input = heap
    /\ args \in AllArgs
    /\ bulk_skip \in {[none |-> TRUE, val |-> {}],
                      [none |-> FALSE, val |-> {}],
                      [none |-> FALSE, val |-> {NameSEX}]}
    /\ datasets = [n \in 1..Len(heap) |-> [name |-> TableNames[n], df |-> n]]
    /\ skip_variables = {}
    /\ fileOk = "unknown"
    /\ httpStatus = 0
    /\ arg = None
    /\ pc = "idle"
    /\ df = None
    /\ file_content = <<>>
    /\ lines = <<>>
    /\ col = 0
    /\ mappings = EmptyMap
    /\ result = None
    /\ exc = ""
    /\ io = [opens |-> 0, requests |-> 0, scans |-> 0]
    /\ processed = EmptyMap
    /\ k = 1
    /\ bpc = "loop"

Next ==
    Mapper

NextBulk ==
    \/ BulkCall
    \/ Mapper
    \/ BulkStore
    \/ BulkRaise
    \/ BulkReturn

Spec ==
    Init /\ [][Next]_vars

SpecExtract ==
    InitExtract /\ [][Next]_vars

SpecBulk ==
    InitBulk /\ [][NextBulk]_vars

\* ------------------------------------------------------------------------
\* Properties
\* ------------------------------------------------------------------------

\* The least index of seq whose line satisfies P, or None.
FirstIndex(seq, P(_)) ==
    LET S == {i \in 1..Len(seq) : P(seq[i])}
    IN  IF S = {} THEN None ELSE CHOOSE i \in S : \A j \in S : i <= j

HasPersonMarker(line) == Contains(line, PersonMarker)

HasHousingMarker(line) == Contains(line, HousingMarker)

\* The call has located its section (lines is final).
Located == pc \in {"map", "done"}

\* The table the caller passed, as it was before the call.
Given == input[arg]

NoneSupplied ==
    /\ args.acs_pums_data_dictionary_path = "None"
    /\ args.acs_pums_data_dictionary_url = "None"
    /\ args.acs_year = "None"

HasLower(name) ==
    \E n \in 1..Len(name) : name[n] \in Lower

\* C1: in the returned table, every cell of an eligible column whose
\* extracted mapping is non-empty is mapping[v] when the input cell v is a
\* key of the mapping, and is the missing marker, not the original code,
\* when v is no key.
C1_MappedOrNull ==
    pc = "done" =>
        \A c \in 1..Len(Given) :
            LET name == Given[c].name
                m    == mappings_extract(name, lines)
            IN  (/\ ~HasLower(name)
                 /\ \E n \in 1..Len(name) : name[n] \in Upper
                 /\ name \notin skip_variables
                 /\ DOMAIN m # {}) =>
                    \A r \in 1..Len(Given[c].cells) :
                        LET v   == Given[c].cells[r]
                            out == heap[result][c].cells[r]
                        IN  IF v.kind = "code" /\ v.code \in DOMAIN m
                            THEN out = LabelCell(m[v.code])
                            ELSE out = NullCell /\ out # v

\* C1 witness: a returned column holds a label for a known code and the
\* missing marker for a code the mapping does not list.
C1_Witness ==
    /\ pc = "done"
    /\ \E c \in 1..Len(Given) : \E r1, r2 \in 1..Len(Given[c].cells) :
          /\ heap[result][c].cells[r1].kind = "label"
          /\ Given[c].cells[r2].kind = "code"
          /\ heap[result][c].cells[r2] = NullCell

\* The Person-Level section as the claim states it.
PersonRef(text) ==
    LET i == FirstIndex(text, HasPersonMarker)
    IN  IF i = None THEN <<>> ELSE SubSeq(text, i, Len(text))

\* C4: for Person-Level the section is file_content[i:] with i the first
\* line containing the person marker, whatever marker lines follow; with no
\* marker line the section is empty and nothing is raised.
C4_PersonSection ==
    (Located /\ args.survey_level = "Person-Level") =>
        /\ lines = PersonRef(file_content)
        /\ exc = ""

\* C4 witness: the marker is not on the first line and marker lines follow
\* it; the section starts at the marker and runs to the end.
C4_Witness ==
    /\ Located
    /\ args.survey_level = "Person-Level"
    /\ Len(file_content) >= 3
    /\ ~HasPersonMarker(file_content[1])
    /\ HasPersonMarker(file_content[2])
    /\ \E j \in 3..Len(file_content) :
          HasPersonMarker(file_content[j]) \/ HasHousingMarker(file_content[j])
    /\ lines = SubSeq(file_content, 2, Len(file_content))

\* C5: the caller's table keeps its columns and cells in every state of the
\* call, returned or raised, and the returned table is another object.
C5_CallerTableUntouched ==
    /\ \A r \in 1..Len(input) : heap[r] = input[r]
    /\ pc = "done" => result # arg

\* C5 witness: the call returned a table whose cells differ from the
\* caller's.
C5_Witness ==
    /\ pc = "done"
    /\ heap[result] # Given

\* C6: a column that is ineligible (a lower-case letter in its name, or
\* listed in skip_variables) or whose extracted mapping is empty has the
\* input's cells in the returned table.
C6_OtherColumnsUnchanged ==
    pc = "done" =>
        \A c \in 1..Len(Given) :
            LET name == Given[c].name
            IN  (\/ HasLower(name)
                 \/ name \in skip_variables
                 \/ DOMAIN mappings_extract(name, lines) = {}) =>
                    heap[result][c] = Given[c]

\* C6 witness: a skipped column for which the section holds code lines is
\* returned unchanged.
C6_Witness ==
    /\ pc = "done"
    /\ \E c \in 1..Len(Given) :
          /\ Given[c].name \in skip_variables
          /\ DOMAIN mappings_extract(Given[c].name, lines) # {}
          /\ heap[result][c] = Given[c]

\* C9: with no dictionary source the call raises the configuration error
\* before a file is opened, a request is made, a line is scanned or the
\* table is copied; with a source the error is never raised.
C9_ConfigErrorFirst ==
    /\ (NoneSupplied /\ pc # "start") =>
          /\ pc = "raised"
          /\ exc = "ValueError"
          /\ io = [opens |-> 0, requests |-> 0, scans |-> 0]
          /\ heap = input
          /\ df = None
          /\ file_content = <<>>
    /\ ~NoneSupplied => exc # "ValueError"

\* C9 witness: the call has raised the configuration error.
C9_Witness ==
    /\ pc = "raised"
    /\ exc = "ValueError"
    /\ NoneSupplied

\* The names of the tables the bulk call was given.
DatasetNames ==
    {datasets[n].name : n \in 1..Len(datasets)}

\* C7: the bulk result has exactly the keys of datasets, and the table under
\* each key is what acs_pums_variable_mapper returns for that table alone
\* with the same dictionary, survey_level and skip_variables.
C7_BulkAsAlone ==
    bpc = "done" =>
        /\ DOMAIN processed = DatasetNames
        /\ \A n \in 1..Len(datasets) :
              /\ processed[datasets[n].name] \notin {datasets[m].df : m \in 1..Len(datasets)}
              /\ heap[processed[datasets[n].name]] =
                    MapTable(input[datasets[n].df],
                             Section(dictText, args.survey_level),
                             IF bulk_skip.none THEN {} ELSE bulk_skip.val)

\* C7 witness: a bulk call over two tables, with a skip list given, has
\* returned, and a table of the result differs from its input.
C7_Witness ==
    /\ bpc = "done"
    /\ Len(datasets) = 2
    /\ ~bulk_skip.none
    /\ DOMAIN processed = {"t1", "t2"}
    /\ \E n \in 1..2 : heap[processed[datasets[n].name]] # input[datasets[n].df]

\* The Housing-Level section as the claim states it: from the first housing
\* marker line to the first person marker line after it.
HousingRef(text) ==
    LET i == FirstIndex(text, HasHousingMarker)
        J == {j \in 1..Len(text) : j > i /\ HasPersonMarker(text[j])}
    IN  IF i = None \/ J = {} THEN <<>>
        ELSE SubSeq(text, i, (CHOOSE j \in J : \A x \in J : j <= x) - 1)

\* C3: for Housing-Level the section is file_content[i:j], i the first line
\* containing the housing marker and j the first line after i containing the
\* person marker, and is empty when i or j does not exist.
C3_HousingSection ==
    (Located /\ args.survey_level = "Housing-Level") =>
        lines = HousingRef(file_content)

\* The dictionary comes over HTTP: no path, and a url or a year.
OverHttp ==
    /\ args.acs_pums_data_dictionary_path = "None"
    /\ \/ args.acs_pums_data_dictionary_url # "None"
       \/ args.acs_year # "None"

\* C8: when the dictionary is fetched over HTTP and the response has a
\* non-success status, the call raises and returns no table, the body is
\* never taken as dictionary text and the request is made once.
C8_HttpErrorRaises ==
    (OverHttp /\ io.requests > 0 /\ httpStatus >= 400) =>
        /\ pc = "raised"
        /\ exc # ""
        /\ result = None
        /\ file_content = <<>>
        /\ io.scans = 0
        /\ io.requests = 1

\* A code line: its stripped text is digits, whitespace, a period, a rest.
IsCodeLine(line) ==
    CodeMatch(Strip(line)).matched

\* A line that ends an entry: not a code line, and blank or upper-case
\* letters followed by whitespace.
IsStopLine(line) ==
    /\ ~IsCodeLine(line)
    /\ \/ Strip(line) = <<>>
       \/ HeaderMatch(Strip(line))

\* The code -> label pairs of the code lines of seq, a later line winning.
RECURSIVE CodePairs(_)
CodePairs(seq) ==
    IF seq = <<>> THEN EmptyMap
    ELSE LET before == CodePairs(SubSeq(seq, 1, Len(seq) - 1))
             last   == seq[Len(seq)]
             match  == CodeMatch(Strip(last))
         IN  IF match.matched
             THEN DictSet(before, ParseInt(match.key), Strip(match.value))
             ELSE before

\* The mapping of name when scanning stops at the first stop line after the
\* first line that starts with name.
StopRef(name, section) ==
    LET f == FirstIndex(section, LAMBDA line : StartsWith(line, name))
        S == {j \in 1..Len(section) : j > f /\ IsStopLine(section[j])}
        s == IF S = {} THEN Len(section) + 1
             ELSE CHOOSE j \in S : \A x \in S : j <= x
    IN  IF f = None THEN EmptyMap
        ELSE CodePairs(SubSeq(section, f + 1, s - 1))

\* The column loop has just extracted the mapping of this column.
JustExtracted(name) ==
    /\ pc = "map"
    /\ col >= 2
    /\ heap[df][col - 1].name = name
    /\ Eligible(name, skip_variables)

\* C2: once the first line starting with the column name has been seen,
\* scanning stops at the first later stop line, and no code line at or after
\* it adds an entry to the mapping.
C2_StopsAtStopLine ==
    \A name \in {NameSEX, NameSEXP} :
        JustExtracted(name) => mappings = StopRef(name, lines)

\* line is the top-level entry line of exactly name.
IsEntryOf(name, line) ==
    /\ StartsWith(line, name)
    /\ Len(line) > Len(name)
    /\ line[Len(name) + 1] \in Space

\* section[a..b] is an entry of name: its entry line, one or more code
\* lines, a blank line.
EntryAt(section, name, a, b) ==
    /\ b >= a + 2
    /\ IsEntryOf(name, section[a])
    /\ \A x \in (a + 1)..(b - 1) : IsCodeLine(section[x])
    /\ Strip(section[b]) = <<>>

\* C10: in a section holding an entry for C and an entry for a name that has
\* C as a proper prefix, in either order, the mapping of C is the pairs
\* listed under C's own entry.
C10_ScopedToOwnEntry ==
    LET C == NameSEX
        D == NameSEXP
        n == Len(lines)
    IN  JustExtracted(C) =>
            \A a, b \in 2..n :
                (\/ EntryAt(lines, C, 2, a) /\ a + 1 = b /\ EntryAt(lines, D, b, n)
                 \/ EntryAt(lines, D, 2, b - 1) /\ a = n /\ EntryAt(lines, C, b, n)) =>
                    mappings =
                        CodePairs(IF IsEntryOf(C, lines[2])
                                  THEN SubSeq(lines, 2, a)
                                  ELSE SubSeq(lines, b, n))

====
